---- MODULE Spec2Model ----
(***************************************************************************)
(* A model of ghakuf's Standard MIDI File value model and codec:           *)
(*   - messages.rs: Message, MetaEvent, MidiEvent, MidiEventBuilder,       *)
(*     SysExEvent and their binary()/len()/status_byte() operations;       *)
(*   - the VLQ primitive, the Writer and the Reader, whose sources are     *)
(*     not part of the files at hand and are modelled from the design      *)
(*     document (sections 4.1, 4.3, 4.4).                                  *)
(* Bytes are naturals in 0..255; a Vec<u8> is a sequence of bytes.         *)
(***************************************************************************)
EXTENDS Integers, Sequences, FiniteSets, TLC

VARIABLES
    \* ---- MidiEvent codec / MidiEventBuilder harness (Spec) ----
    pc,         \* position of the harness
    event,      \* the MidiEvent that was encoded, or NoEvent for raw bytes
    bin,        \* the bytes handed to the builder: status byte, then parameters
    elen,       \* MidiEvent::len() of the encoded event
    pos,        \* number of bytes of bin consumed so far
    builder,    \* the MidiEventBuilder {status, shortage, data}
    built,      \* result of MidiEventBuilder::build()
    \* ---- Message / MetaEvent harness (SpecMessage) ----
    mpc,        \* position of the harness
    mcode,      \* the type byte given to MetaEvent::new
    mevent,     \* result of MetaEvent::new
    mbin,       \* result of MetaEvent::binary()
    msg,        \* the Message under test
    binOut,     \* result of Message::binary()
    lenOut,     \* result of Message::len()
    \* ---- Writer and Reader (SpecFile) ----
    w_messages, \* Writer: the pushed messages, in program order
    w_running,  \* Writer: the running-status mode flag
    file,       \* the bytes written by Writer::write
    r_state,    \* Reader: state of the decode state machine
    r_pos,      \* Reader: number of bytes of file consumed
    r_end,      \* Reader: offset at which the current track chunk ends
    r_status,   \* Reader: last explicit status byte of the current track
    r_tracks,   \* Reader: number of track chunks entered so far
    h_header,   \* handler: arguments of the header callback
    h_changes,  \* handler: number of track_change invocations
    messages    \* HogeHandler.messages: the recorded callbacks

codecVars == <<pc, event, bin, elen, pos, builder, built>>
messageVars == <<mpc, mcode, mevent, mbin, msg, binOut, lenOut>>
fileVars == <<w_messages, w_running, file, r_state, r_pos, r_end, r_status,
              r_tracks, h_header, h_changes, messages>>
vars == <<codecVars, messageVars, fileVars>>

(***************************************************************************)
(* Bounds of the model.                                                    *)
(***************************************************************************)
MaxPush == 3        \* raw parameter bytes offered to a builder
MaxData == 3        \* length of the short data payloads
MaxMsgs == 3        \* messages pushed to a Writer

(***************************************************************************)
(* Results of operations that may panic.                                   *)
(***************************************************************************)
None == [tag |-> "None"]
Panic == [tag |-> "Panic"]
Ok(v) == [tag |-> "Ok", val |-> v]

(***************************************************************************)
(* Machine arithmetic.                                                     *)
(***************************************************************************)
RECURSIVE BitAnd(_, _)
BitAnd(a, b) ==
    IF a = 0 \/ b = 0 THEN 0
    ELSE (a % 2) * (b % 2) + 2 * BitAnd(a \div 2, b \div 2)

RECURSIVE BitOr(_, _)
BitOr(a, b) ==
    IF a = 0 THEN b
    ELSE IF b = 0 THEN a
    ELSE (IF a % 2 = 1 \/ b % 2 = 1 THEN 1 ELSE 0) + 2 * BitOr(a \div 2, b \div 2)

U8(x) == x % 256
U16(x) == x % 65536
\* u16 reinterpreted as i16
AsI16(x) == IF U16(x) >= 32768 THEN U16(x) - 65536 ELSE U16(x)

SeqsUpTo(S, n) == UNION {[1..k -> S] : k \in 0..n}

(***************************************************************************)
(* VLQ (design document 4.1): minimal big-endian base-128 digits, the      *)
(* continuation bit set on all but the last byte.                          *)
(***************************************************************************)
RECURSIVE VLQ_digits(_)
VLQ_digits(v) ==
    IF v < 128 THEN <<v>> ELSE Append(VLQ_digits(v \div 128), v % 128)

VLQ_binary(v) ==
    LET d == VLQ_digits(v)
    IN  [i \in 1..Len(d) |-> IF i < Len(d) THEN 128 + d[i] ELSE d[i]]

RECURSIVE VLQ_len(_)
VLQ_len(v) == IF v < 128 THEN 1 ELSE 1 + VLQ_len(v \div 128)

\* Tag::Track.binary(): the ASCII bytes of "MTrk"
Tag_Track_binary == <<77, 84, 114, 107>>
\* Tag::Header.binary(): the ASCII bytes of "MThd"
Tag_Header_binary == <<77, 84, 104, 100>>

(***************************************************************************)
(* MetaEvent                                                               *)
(***************************************************************************)
Meta(k) == [kind |-> k]

MetaEvent_new(event_type) ==
    CASE event_type = 0 -> Meta("SequenceNumber")
      [] event_type = 1 -> Meta("TextEvent")
      [] event_type = 2 -> Meta("CopyrightNotice")
      [] event_type = 3 -> Meta("SequenceOrTrackName")
      [] event_type = 4 -> Meta("InstrumentName")
      [] event_type = 5 -> Meta("Lyric")
      [] event_type = 6 -> Meta("Marker")
      [] event_type = 7 -> Meta("CuePoint")
      [] event_type = 32 -> Meta("MIDIChannelPrefix")
      [] event_type = 47 -> Meta("EndOfTrack")
      [] event_type = 81 -> Meta("SetTempo")
      [] event_type = 84 -> Meta("SMTPEOffset")
      [] event_type = 88 -> Meta("TimeSignature")
      [] event_type = 89 -> Meta("KeySignature")
      [] event_type = 127 -> Meta("SequencerSpecificMetaEvent")
      [] OTHER -> [kind |-> "Unknown", event_type |-> event_type]

MetaEvent_status_byte(self) == 255

\* MetaEvent_binary with KeySignature given the code of TimeSignature
MetaEvent_binary_dupCode(self) ==
    << 255,
       CASE self.kind = "SequenceNumber" -> 0
         [] self.kind = "TextEvent" -> 1
         [] self.kind = "CopyrightNotice" -> 2
         [] self.kind = "SequenceOrTrackName" -> 3
         [] self.kind = "InstrumentName" -> 4
         [] self.kind = "Lyric" -> 5
         [] self.kind = "Marker" -> 6
         [] self.kind = "CuePoint" -> 7
         [] self.kind = "MIDIChannelPrefix" -> 32
         [] self.kind = "EndOfTrack" -> 47
         [] self.kind = "SetTempo" -> 81
         [] self.kind = "SMTPEOffset" -> 84
         [] self.kind = "TimeSignature" -> 88
         [] self.kind = "KeySignature" -> 88
         [] self.kind = "SequencerSpecificMetaEvent" -> 127
         [] self.kind = "Unknown" -> self.event_type >>

MetaEvent_binary(self) ==
    << MetaEvent_status_byte(self),
       CASE self.kind = "SequenceNumber" -> 0
         [] self.kind = "TextEvent" -> 1
         [] self.kind = "CopyrightNotice" -> 2
         [] self.kind = "SequenceOrTrackName" -> 3
         [] self.kind = "InstrumentName" -> 4
         [] self.kind = "Lyric" -> 5
         [] self.kind = "Marker" -> 6
         [] self.kind = "CuePoint" -> 7
         [] self.kind = "MIDIChannelPrefix" -> 32
         [] self.kind = "EndOfTrack" -> 47
         [] self.kind = "SetTempo" -> 81
         [] self.kind = "SMTPEOffset" -> 84
         [] self.kind = "TimeSignature" -> 88
         [] self.kind = "KeySignature" -> 89
         [] self.kind = "SequencerSpecificMetaEvent" -> 127
         [] self.kind = "Unknown" -> self.event_type >>

MetaEvent_len(self) == 2

(***************************************************************************)
(* MidiEvent                                                               *)
(***************************************************************************)
NoteOff(ch, note, velocity) ==
    [kind |-> "NoteOff", ch |-> ch, note |-> note, velocity |-> velocity]
NoteOn(ch, note, velocity) ==
    [kind |-> "NoteOn", ch |-> ch, note |-> note, velocity |-> velocity]
PolyphonicKeyPressure(ch, note, velocity) ==
    [kind |-> "PolyphonicKeyPressure", ch |-> ch, note |-> note, velocity |-> velocity]
ControlChange(ch, control, data) ==
    [kind |-> "ControlChange", ch |-> ch, control |-> control, data |-> data]
ProgramChange(ch, program) ==
    [kind |-> "ProgramChange", ch |-> ch, program |-> program]
ChannelPressure(ch, pressure) ==
    [kind |-> "ChannelPressure", ch |-> ch, pressure |-> pressure]
PitchBendChange(ch, data) ==
    [kind |-> "PitchBendChange", ch |-> ch, data |-> data]
UnknownMidi(ch) ==
    [kind |-> "Unknown", ch |-> ch]

MidiEvent_status_byte(self) ==
    CASE self.kind = "NoteOff" -> BitOr(128, self.ch % 16)
      [] self.kind = "NoteOn" -> BitOr(144, self.ch % 16)
      [] self.kind = "PolyphonicKeyPressure" -> BitOr(160, self.ch % 16)
      [] self.kind = "ControlChange" -> BitOr(176, self.ch % 16)
      [] self.kind = "ProgramChange" -> BitOr(192, self.ch % 16)
      [] self.kind = "ChannelPressure" -> BitOr(208, self.ch % 16)
      [] self.kind = "PitchBendChange" -> BitOr(224, self.ch % 16)
      [] self.kind = "Unknown" -> BitOr(128, self.ch % 16)

MidiEvent_binary(self) ==
    CASE self.kind \in {"NoteOff", "NoteOn", "PolyphonicKeyPressure"} ->
            <<MidiEvent_status_byte(self), self.note, self.velocity>>
      [] self.kind = "ControlChange" ->
            <<MidiEvent_status_byte(self), self.control, self.data>>
      [] self.kind = "ProgramChange" ->
            <<MidiEvent_status_byte(self), self.program>>
      [] self.kind = "ChannelPressure" ->
            <<MidiEvent_status_byte(self), self.pressure>>
      [] self.kind = "PitchBendChange" ->
            LET pitch_bend == U16(self.data + 8192)
            IN  <<MidiEvent_status_byte(self),
                  U8(pitch_bend \div 128),
                  U8(BitAnd(pitch_bend, 127))>>
      [] self.kind = "Unknown" ->
            <<MidiEvent_status_byte(self)>>

MidiEvent_len(self) ==
    CASE self.kind \in {"NoteOff", "NoteOn", "PolyphonicKeyPressure",
                        "ControlChange", "PitchBendChange"} -> 3
      [] self.kind \in {"ProgramChange", "ChannelPressure"} -> 2
      [] self.kind = "Unknown" -> 1

(***************************************************************************)
(* MidiEventBuilder                                                        *)
(***************************************************************************)
\* MidiEventBuilder_new with 0xe0 grouped with the one-parameter statuses
MidiEventBuilder_new_e0One(status) ==
    [status |-> status,
     data |-> <<>>,
     shortage |->
        LET hi == BitAnd(status, 240)
        IN  IF 128 <= hi /\ hi <= 176 THEN 2
            ELSE IF hi = 192 \/ hi = 208 \/ hi = 224 THEN 1
            ELSE 0]

\* MidiEventBuilder_new with the range 0x80...0xb0 taken for its two endpoints
MidiEventBuilder_new_endpointsOnly(status) ==
    [status |-> status,
     data |-> <<>>,
     shortage |->
        LET hi == BitAnd(status, 240)
        IN  IF hi = 128 \/ hi = 176 \/ hi = 224 THEN 2
            ELSE IF hi = 192 \/ hi = 208 THEN 1
            ELSE 0]

MidiEventBuilder_new(status) ==
    [status |-> status,
     data |-> <<>>,
     shortage |->
        LET hi == BitAnd(status, 240)
        IN  IF (128 <= hi /\ hi <= 176) \/ hi = 224 THEN 2
            ELSE IF hi = 192 \/ hi = 208 THEN 1
            ELSE 0]

\* MidiEventBuilder_push without the shortage > 0 guard (u8 arithmetic wraps)
MidiEventBuilder_push_unguarded(self, data) ==
    [self EXCEPT !.data = Append(@, data), !.shortage = U8(@ - 1)]

MidiEventBuilder_push(self, data) ==
    IF self.shortage > 0
    THEN [self EXCEPT !.data = Append(@, data), !.shortage = @ - 1]
    ELSE self

MidiEventBuilder_shortage(self) == self.shortage

\* self.data[i] of the source is 0-based and panics when the byte is missing
MidiEventBuilder_build(self) ==
    LET hi == BitAnd(self.status, 240)
        ch == BitAnd(self.status, 15)
        n == Len(self.data)
    IN  CASE hi = 128 ->
                IF n < 2 THEN Panic ELSE Ok(NoteOff(ch, self.data[1], self.data[2]))
          [] hi = 144 ->
                IF n < 2 THEN Panic ELSE Ok(NoteOn(ch, self.data[1], self.data[2]))
          [] hi = 160 ->
                IF n < 2 THEN Panic
                ELSE Ok(PolyphonicKeyPressure(ch, self.data[1], self.data[2]))
          [] hi = 176 ->
                IF n < 2 THEN Panic
                ELSE Ok(ControlChange(ch, self.data[1], self.data[2]))
          [] hi = 192 ->
                IF n < 1 THEN Panic ELSE Ok(ProgramChange(ch, self.data[1]))
          [] hi = 208 ->
                IF n < 1 THEN Panic ELSE Ok(ChannelPressure(ch, self.data[1]))
          [] hi = 224 ->
                IF n < 2 THEN Panic
                ELSE LET lsb == U16(self.data[1])
                         msb == U16(self.data[2] * 256)
                     IN  Ok(PitchBendChange(ch, AsI16(BitAnd(msb, lsb)) - 8192))
          [] OTHER -> Ok(UnknownMidi(ch))

(***************************************************************************)
(* SysExEvent                                                              *)
(***************************************************************************)
SysExEvent_new(status) ==
    CASE status = 240 -> [kind |-> "F0"]
      [] status = 247 -> [kind |-> "F7"]
      [] OTHER -> [kind |-> "Unknown", status |-> status]

SysExEvent_status_byte(self) ==
    CASE self.kind = "F0" -> 240
      [] self.kind = "F7" -> 247
      [] self.kind = "Unknown" -> self.status

SysExEvent_binary(self) == <<SysExEvent_status_byte(self)>>

SysExEvent_len(self) == 1

(***************************************************************************)
(* Message                                                                 *)
(***************************************************************************)
MetaMessage(delta_time, ev, data) ==
    [type |-> "MetaEvent", delta_time |-> delta_time, event |-> ev, data |-> data]
MidiMessage(delta_time, ev) ==
    [type |-> "MidiEvent", delta_time |-> delta_time, event |-> ev]
SysExMessage(delta_time, ev, data) ==
    [type |-> "SysExEvent", delta_time |-> delta_time, event |-> ev, data |-> data]
TrackChange == [type |-> "TrackChange"]

\* Message_binary with the F0 payload emitted like every other SysExEvent payload
Message_binary_keepF0(self) ==
    CASE self.type = "MetaEvent" ->
            Ok(VLQ_binary(self.delta_time) \o MetaEvent_binary(self.event)
               \o VLQ_binary(Len(self.data)) \o self.data)
      [] self.type = "MidiEvent" ->
            Ok(VLQ_binary(self.delta_time) \o MidiEvent_binary(self.event))
      [] self.type = "SysExEvent" ->
            Ok(VLQ_binary(self.delta_time) \o SysExEvent_binary(self.event)
               \o VLQ_binary(Len(self.data)) \o self.data)
      [] self.type = "TrackChange" -> Ok(Tag_Track_binary)

\* Ok(bytes), or Panic where the source's subtraction or slice panics
Message_binary(self) ==
    CASE self.type = "MetaEvent" ->
            Ok(VLQ_binary(self.delta_time) \o MetaEvent_binary(self.event)
               \o VLQ_binary(Len(self.data)) \o self.data)
      [] self.type = "MidiEvent" ->
            Ok(VLQ_binary(self.delta_time) \o MidiEvent_binary(self.event))
      [] self.type = "SysExEvent" ->
            IF self.event.kind = "F0"
            THEN IF Len(self.data) = 0
                 THEN Panic
                 ELSE Ok(VLQ_binary(self.delta_time) \o SysExEvent_binary(self.event)
                         \o VLQ_binary(Len(self.data) - 1)
                         \o SubSeq(self.data, 2, Len(self.data)))
            ELSE Ok(VLQ_binary(self.delta_time) \o SysExEvent_binary(self.event)
                    \o VLQ_binary(Len(self.data)) \o self.data)
      [] self.type = "TrackChange" -> Ok(Tag_Track_binary)

Message_len(self) ==
    CASE self.type = "MetaEvent" ->
            VLQ_len(self.delta_time) + MetaEvent_len(self.event)
            + VLQ_len(Len(self.data)) + Len(self.data)
      [] self.type = "MidiEvent" ->
            VLQ_len(self.delta_time) + MidiEvent_len(self.event)
      [] self.type = "SysExEvent" ->
            VLQ_len(self.delta_time)
            + VLQ_len(Len(self.data) + (IF self.event.kind = "F0" THEN 1 ELSE 0))
            + Len(self.data)
      [] self.type = "TrackChange" -> Len(Tag_Track_binary)

(***************************************************************************)
(* Inputs.                                                                 *)
(***************************************************************************)
Bytes == 0..255
Channels == 0..15
\* 7-bit parameter values: both ends, middle C, and the note of the example
ParamValues == {0, 60, 64, 127}
\* 14-bit pitch-bend wire values: both ends, the centre, the 7-bit boundary
PitchWire == {0, 1, 127, 128, 8191, 8192, 8193, 16383}
\* parameter bytes offered to a builder that was started from a raw status byte
PushBytes == {0, 127}

MidiEvents ==
    {NoteOff(ch, a, b) : ch \in Channels, a \in ParamValues, b \in ParamValues}
    \cup {NoteOn(ch, a, b) : ch \in Channels, a \in ParamValues, b \in ParamValues}
    \cup {PolyphonicKeyPressure(ch, a, b) :
            ch \in Channels, a \in ParamValues, b \in ParamValues}
    \cup {ControlChange(ch, a, b) : ch \in Channels, a \in ParamValues, b \in ParamValues}
    \cup {ProgramChange(ch, a) : ch \in Channels, a \in ParamValues}
    \cup {ChannelPressure(ch, a) : ch \in Channels, a \in ParamValues}
    \cup {PitchBendChange(ch, w - 8192) : ch \in Channels, w \in PitchWire}
    \cup {UnknownMidi(ch) : ch \in Channels}

NoEvent == [kind |-> "NoEvent"]
NoBuilder == [status |-> 0, shortage |-> 0, data |-> <<>>]

InitCodec ==
    /\ pc = "idle"
    /\ event = NoEvent
    /\ bin = <<>>
    /\ elen = 0
    /\ pos = 0
    /\ builder = NoBuilder
    /\ built = None

InitMessage ==
    /\ mpc = "idle"
    /\ mcode = 0
    /\ mevent = None
    /\ mbin = None
    /\ msg = None
    /\ binOut = None
    /\ lenOut = None

InitFile ==
    /\ w_messages = <<>>
    /\ w_running = FALSE
    /\ file = <<>>
    /\ r_state = "NotStarted"
    /\ r_pos = 0
    /\ r_end = 0
    /\ r_status = 0
    /\ r_tracks = 0
    /\ h_header = None
    /\ h_changes = 0
    /\ messages = <<>>

Init == InitCodec /\ InitMessage /\ InitFile

(***************************************************************************)
(* Spec: a MidiEvent is encoded with binary() and len(), or raw bytes are  *)
(* taken; a MidiEventBuilder is made from the first byte, the remaining    *)
(* bytes are pushed in order, and build() is called.                       *)
(***************************************************************************)
Encode(e) ==
    /\ pc = "idle"
    /\ event' = e
    /\ bin' = MidiEvent_binary(e)
    /\ elen' = MidiEvent_len(e)
    /\ pc' = "encoded"
    /\ UNCHANGED <<pos, builder, built, messageVars, fileVars>>

Raw(s, bs) ==
    /\ pc = "idle"
    /\ bin' = <<s>> \o bs
    /\ pc' = "encoded"
    /\ UNCHANGED <<event, elen, pos, builder, built, messageVars, fileVars>>

New ==
    /\ pc = "encoded"
    /\ builder' = MidiEventBuilder_new(bin[1])
    /\ pos' = 1
    /\ pc' = "feeding"
    /\ UNCHANGED <<event, bin, elen, built, messageVars, fileVars>>

Push ==
    /\ pc = "feeding"
    /\ pos < Len(bin)
    /\ builder' = MidiEventBuilder_push(builder, bin[pos + 1])
    /\ pos' = pos + 1
    /\ UNCHANGED <<pc, event, bin, elen, built, messageVars, fileVars>>

Build ==
    /\ pc = "feeding"
    /\ pos = Len(bin)
    /\ built' = MidiEventBuilder_build(builder)
    /\ pc' = "built"
    /\ UNCHANGED <<event, bin, elen, pos, builder, messageVars, fileVars>>

Next ==
    \/ \E e \in MidiEvents : Encode(e)
    \/ \E s \in Bytes : \E bs \in SeqsUpTo(PushBytes, MaxPush) : Raw(s, bs)
    \/ New
    \/ Push
    \/ Build

Spec == Init /\ [][Next]_vars

(***************************************************************************)
(* Properties of the MidiEvent codec and the MidiEventBuilder (Spec).      *)
(***************************************************************************)
\* the parameter-byte count and the variant the documentation gives for a status byte
RequiredFor(s) ==
    IF s \div 16 \in {8, 9, 10, 11, 14} THEN 2
    ELSE IF s \div 16 \in {12, 13} THEN 1
    ELSE 0

VariantFor(s) ==
    CASE s \div 16 = 8 -> "NoteOff"
      [] s \div 16 = 9 -> "NoteOn"
      [] s \div 16 = 10 -> "PolyphonicKeyPressure"
      [] s \div 16 = 11 -> "ControlChange"
      [] s \div 16 = 12 -> "ProgramChange"
      [] s \div 16 = 13 -> "ChannelPressure"
      [] s \div 16 = 14 -> "PitchBendChange"
      [] OTHER -> "Unknown"

\* C2: PitchBendChange symmetry. Encoding PitchBendChange{ch, data: w - 8192} with
\* binary() and decoding the bytes with MidiEventBuilder (new, two pushes, build)
\* yields PitchBendChange{ch, data: w - 8192} again.
C2_PitchBendSymmetry ==
    (pc = "built" /\ event.kind = "PitchBendChange") => built = Ok(event)

\* C4: channel-voice round trip. For an event of variant NoteOff, NoteOn,
\* PolyphonicKeyPressure, ControlChange, ProgramChange, ChannelPressure or Unknown,
\* the builder made from binary()[0] requires exactly len() - 1 parameter bytes,
\* has shortage 0 once binary()[1..] has been pushed, and build() returns the event.
C4_ChannelVoiceRoundTrip ==
    event.kind \in {"NoteOff", "NoteOn", "PolyphonicKeyPressure", "ControlChange",
                    "ProgramChange", "ChannelPressure", "Unknown"}
    => /\ (pc = "feeding" /\ pos = 1) =>
            MidiEventBuilder_shortage(builder) = elen - 1
       /\ (pc = "feeding" /\ pos = Len(bin)) =>
            MidiEventBuilder_shortage(builder) = 0
       /\ pc = "built" => built = Ok(event)

\* C8: for every status byte s, new(s).shortage() is 2 for the nibbles 0x80, 0x90,
\* 0xA0, 0xB0 and 0xE0, 1 for 0xC0 and 0xD0 and 0 otherwise, and build() on the
\* completed builder returns the variant of that nibble with ch = s & 0x0F.
C8_ShortageAndVariant ==
    /\ (pc = "feeding" /\ pos = 1) =>
            MidiEventBuilder_shortage(builder) = RequiredFor(bin[1])
    /\ (pc = "built" /\ MidiEventBuilder_shortage(builder) = 0) =>
            /\ built.tag = "Ok"
            /\ built.val.kind = VariantFor(bin[1])
            /\ built.val.ch = bin[1] % 16

\* a completed builder of every parameter count was built
C8_Witness ==
    /\ pc = "built"
    /\ MidiEventBuilder_shortage(builder) = 0
    /\ event = NoEvent
    /\ bin[1] = 229
    /\ built.tag = "Ok"
    /\ built.val.kind = "PitchBendChange"
    /\ built.val.ch = 5

\* C9: after new(s) and any pushes, stored bytes + shortage() equals the count
\* required for s, shortage() is never negative and never increases, a push made
\* while shortage() is 0 changes nothing, and build() of a builder whose shortage()
\* is 0 finds every byte it reads.
C9_StoredPlusShortage ==
    pc \in {"feeding", "built"} =>
        /\ builder.status = bin[1]
        /\ Len(builder.data) + MidiEventBuilder_shortage(builder)
                = RequiredFor(builder.status)
        /\ MidiEventBuilder_shortage(builder) >= 0
        /\ builder.data = SubSeq(bin, 2, 1 + Len(builder.data))
        /\ (pc = "built" /\ MidiEventBuilder_shortage(builder) = 0) => built # Panic

C9_PushStep ==
    (pc = "feeding" /\ pc' = "feeding" /\ pos' = pos + 1) =>
        /\ MidiEventBuilder_shortage(builder') <= MidiEventBuilder_shortage(builder)
        /\ MidiEventBuilder_shortage(builder) = 0 => builder' = builder

C9_BuilderInvariant == [](C9_StoredPlusShortage) /\ [][C9_PushStep]_vars

\* a push was made while shortage() was 0, and build() was then called
C9_Witness ==
    /\ pc = "built"
    /\ MidiEventBuilder_shortage(builder) = 0
    /\ Len(builder.data) = 2
    /\ pos = 4
    /\ built.tag = "Ok"

(***************************************************************************)
(* SpecMessage: a MetaEvent is made from a type byte and encoded; a        *)
(* Message is made, and its binary() and len() are called.                 *)
(***************************************************************************)
\* delta times whose VLQ takes one, two and three bytes
DeltaTimes == {0, 192, 16384}
DataBytes == {240, 1}
\* payload lengths around the one-byte/two-byte boundary of the VLQ length field
LongLens == {126, 127, 128, 129}
LongData(n, first) == [i \in 1..n |-> IF i = 1 THEN first ELSE i % 128]
ExampleData == <<240, 1, 2, 3>>
DataSet ==
    SeqsUpTo(DataBytes, MaxData)
    \cup {LongData(n, f) : n \in LongLens, f \in DataBytes}
    \cup {ExampleData}
\* status bytes given to SysExEvent::new: F0, F7 and one that yields Unknown
SysExStatuses == {240, 247, 241}

MetaNew(c) ==
    /\ mpc = "idle"
    /\ mcode' = c
    /\ mevent' = Ok(MetaEvent_new(c))
    /\ mpc' = "meta"
    /\ UNCHANGED <<mbin, msg, binOut, lenOut, codecVars, fileVars>>

MetaBinary ==
    /\ mpc = "meta"
    /\ mbin' = Ok(MetaEvent_binary(mevent.val))
    /\ mpc' = "metabin"
    /\ UNCHANGED <<mcode, mevent, msg, binOut, lenOut, codecVars, fileVars>>

MakeMeta(dt, data) ==
    /\ mpc = "metabin"
    /\ msg' = MetaMessage(dt, mevent.val, data)
    /\ mpc' = "msg"
    /\ UNCHANGED <<mcode, mevent, mbin, binOut, lenOut, codecVars, fileVars>>

MakeMidi(dt, e) ==
    /\ mpc = "idle"
    /\ msg' = MidiMessage(dt, e)
    /\ mpc' = "msg"
    /\ UNCHANGED <<mcode, mevent, mbin, binOut, lenOut, codecVars, fileVars>>

MakeSysEx(dt, s, data) ==
    /\ mpc = "idle"
    /\ msg' = SysExMessage(dt, SysExEvent_new(s), data)
    /\ mpc' = "msg"
    /\ UNCHANGED <<mcode, mevent, mbin, binOut, lenOut, codecVars, fileVars>>

MakeTrackChange ==
    /\ mpc = "idle"
    /\ msg' = TrackChange
    /\ mpc' = "msg"
    /\ UNCHANGED <<mcode, mevent, mbin, binOut, lenOut, codecVars, fileVars>>

CallBinary ==
    /\ mpc = "msg"
    /\ binOut' = Message_binary(msg)
    /\ mpc' = "binary"
    /\ UNCHANGED <<mcode, mevent, mbin, msg, lenOut, codecVars, fileVars>>

CallLen ==
    /\ mpc = "binary"
    /\ lenOut' = Ok(Message_len(msg))
    /\ mpc' = "len"
    /\ UNCHANGED <<mcode, mevent, mbin, msg, binOut, codecVars, fileVars>>

NextMessage ==
    \/ \E c \in Bytes : MetaNew(c)
    \/ MetaBinary
    \/ \E dt \in DeltaTimes : \E data \in DataSet : MakeMeta(dt, data)
    \/ \E dt \in DeltaTimes : \E e \in MidiEvents : MakeMidi(dt, e)
    \/ \E dt \in DeltaTimes : \E s \in SysExStatuses : \E data \in DataSet :
            MakeSysEx(dt, s, data)
    \/ MakeTrackChange
    \/ CallBinary
    \/ CallLen

SpecMessage == Init /\ [][NextMessage]_vars

(***************************************************************************)
(* Properties of Message and MetaEvent (SpecMessage).                      *)
(***************************************************************************)
\* C1: for every Message, len() equals the number of bytes binary() returns.
C1_LenEqualsBinaryLength ==
    (mpc = "len" /\ binOut.tag = "Ok") => Len(binOut.val) = lenOut.val

\* C3: F0 sysex stripping. For an F0 SysExEvent whose data has n >= 1 bytes and
\* begins with 0xF0, binary() is VLQ(delta_time) ++ [0xF0] ++ VLQ(n-1) ++ data[1..];
\* for F7 or Unknown{status} it is VLQ(delta_time) ++ [status] ++ VLQ(n) ++ data.
C3_SysExPayload ==
    (mpc \in {"binary", "len"} /\ msg.type = "SysExEvent") =>
        LET n == Len(msg.data)
        IN  /\ (msg.event.kind = "F0" /\ n >= 1 /\ msg.data[1] = 240) =>
                binOut = Ok(VLQ_binary(msg.delta_time) \o <<240>> \o VLQ_binary(n - 1)
                            \o [i \in 1..(n - 1) |-> msg.data[i + 1]])
            /\ msg.event.kind = "F7" =>
                binOut = Ok(VLQ_binary(msg.delta_time) \o <<247>> \o VLQ_binary(n)
                            \o msg.data)
            /\ msg.event.kind = "Unknown" =>
                binOut = Ok(VLQ_binary(msg.delta_time) \o <<msg.event.status>>
                            \o VLQ_binary(n) \o msg.data)
            /\ (msg = SysExMessage(0, [kind |-> "F0"], ExampleData)) =>
                binOut = Ok(<<0, 240, 3, 1, 2, 3>>)

\* the F0 event with stored data [0xF0, 1, 2, 3] was encoded
C3_Witness ==
    /\ mpc = "binary"
    /\ msg = SysExMessage(0, [kind |-> "F0"], ExampleData)
    /\ binOut = Ok(<<0, 240, 3, 1, 2, 3>>)

\* C7: for an F0 SysExEvent whose data does not begin with 0xF0 (empty data
\* included), binary() completes and emits VLQ(data length) and the data unchanged.
C7_F0WithoutPrefix ==
    (/\ mpc \in {"binary", "len"}
     /\ msg.type = "SysExEvent"
     /\ msg.event.kind = "F0"
     /\ (Len(msg.data) = 0 \/ msg.data[1] # 240)) =>
        binOut = Ok(VLQ_binary(msg.delta_time) \o <<240>>
                    \o VLQ_binary(Len(msg.data)) \o msg.data)

\* C10: MetaEvent::new(c).binary() = [0xFF, c] for every type byte c; the 15 named
\* kinds are selected by 15 distinct codes, every other code yields Unknown with
\* that code.
NamedCodes == {0, 1, 2, 3, 4, 5, 6, 7, 32, 47, 81, 84, 88, 89, 127}

C10_MetaRoundTrip ==
    /\ mpc # "idle" /\ mevent # None =>
        /\ (mevent.val.kind # "Unknown") <=> (mcode \in NamedCodes)
        /\ mevent.val.kind = "Unknown" => mevent.val.event_type = mcode
    /\ mbin # None => mbin = Ok(<<255, mcode>>)
    /\ Cardinality(NamedCodes) = 15
    /\ Cardinality({MetaEvent_new(c).kind : c \in NamedCodes}) = 15

\* a named kind and an unknown code were decoded and encoded
C10_Witness ==
    /\ mpc = "metabin"
    /\ mcode = 84
    /\ mevent = Ok(Meta("SMTPEOffset"))
    /\ mbin = Ok(<<255, 84>>)

(***************************************************************************)
(* Writer (design document 4.4).  The pushed messages are partitioned into *)
(* track segments by the TrackChange sentinels.  The declared length of a  *)
(* track chunk is the sum of the len() of its messages, less one byte for  *)
(* each status byte that running status elides, so that it counts the      *)
(* event bytes of a track of channel-voice and meta events.                *)
(***************************************************************************)
BE16(n) == <<(n \div 256) % 256, n % 256>>
BE32(n) == <<(n \div 16777216) % 256, (n \div 65536) % 256, (n \div 256) % 256, n % 256>>

Writer_time_base == 480

\* the status byte running status compares with: 0 when there is none
Writer_pre_status(msgs, i) ==
    IF i >= 1 /\ msgs[i].type = "MidiEvent"
    THEN MidiEvent_status_byte(msgs[i].event)
    ELSE 0

\* TRUE iff message i of msgs is written without its status byte
Writer_elides(msgs, i, running) ==
    /\ running
    /\ msgs[i].type = "MidiEvent"
    /\ MidiEvent_status_byte(msgs[i].event) = Writer_pre_status(msgs, i - 1)

\* the bytes written for message i of msgs (a TrackChange writes the track tag)
Writer_event_bytes(msgs, i, running) ==
    IF Writer_elides(msgs, i, running)
    THEN VLQ_binary(msgs[i].delta_time) \o Tail(MidiEvent_binary(msgs[i].event))
    ELSE Message_binary(msgs[i]).val

\* the index after the last message of the track segment that starts at index i
RECURSIVE Writer_segment_end(_, _)
Writer_segment_end(msgs, i) ==
    IF i > Len(msgs) \/ msgs[i].type = "TrackChange" THEN i
    ELSE Writer_segment_end(msgs, i + 1)

RECURSIVE Writer_track_len(_, _, _, _)
Writer_track_len(msgs, i, j, running) ==
    IF i >= j THEN 0
    ELSE Message_len(msgs[i]) - (IF Writer_elides(msgs, i, running) THEN 1 ELSE 0)
         + Writer_track_len(msgs, i + 1, j, running)

RECURSIVE Writer_track_events(_, _, _, _)
Writer_track_events(msgs, i, j, running) ==
    IF i >= j THEN <<>>
    ELSE Writer_event_bytes(msgs, i, running)
         \o Writer_track_events(msgs, i + 1, j, running)

\* the track chunks of the segments that start at index i and after
RECURSIVE Writer_tracks(_, _, _)
Writer_tracks(msgs, i, running) ==
    LET j == Writer_segment_end(msgs, i)
        chunk == Tag_Track_binary \o BE32(Writer_track_len(msgs, i, j, running))
                 \o Writer_track_events(msgs, i, j, running)
    IN  IF j > Len(msgs) THEN chunk
        ELSE chunk \o Writer_tracks(msgs, j + 1, running)

Writer_track_count(msgs) ==
    1 + Cardinality({i \in 1..Len(msgs) : msgs[i].type = "TrackChange"})

Writer_write(msgs, running) ==
    Tag_Header_binary \o BE32(6) \o BE16(1) \o BE16(Writer_track_count(msgs))
    \o BE16(Writer_time_base) \o Writer_tracks(msgs, 1, running)

(***************************************************************************)
(* HogeHandler of the example: it records the callbacks in messages.       *)
(***************************************************************************)
HogeHandler_meta_event(ms, delta_time, ev, data) ==
    Append(ms, MetaMessage(delta_time, ev, data))

HogeHandler_midi_event(ms, delta_time, ev) ==
    Append(ms, MidiMessage(delta_time, ev))

HogeHandler_sys_ex_event(ms, delta_time, ev, data) ==
    Append(ms, SysExMessage(delta_time, ev, data))

HogeHandler_track_change(ms) ==
    IF Len(ms) > 0 THEN Append(ms, TrackChange) ELSE ms

\* bpm 102
Example_tempo == (60 * 1000000) \div 102

\* the messages the example's main pushes to its Writer
Example_messages ==
    << MetaMessage(0, Meta("SetTempo"),
                   <<U8(Example_tempo \div 65536), U8(Example_tempo \div 256),
                     U8(Example_tempo)>>),
       MetaMessage(0, Meta("EndOfTrack"), <<>>),
       TrackChange,
       MidiMessage(0, NoteOn(0, 60, 127)),
       MidiMessage(192, NoteOn(0, 64, 0)),
       MetaMessage(0, Meta("EndOfTrack"), <<>>) >>

(***************************************************************************)
(* Reader (design document 4.3): a sequential decode state machine over    *)
(* the chunk and event structure.  r_pos counts the bytes consumed, so the *)
(* next byte is file[r_pos + 1].                                           *)
(***************************************************************************)
Fail == [ok |-> FALSE]

Reader_take(f, p, n) == [i \in 1..n |-> f[p + i]]
Reader_u16(f, p) == f[p + 1] * 256 + f[p + 2]
Reader_u32(f, p) ==
    f[p + 1] * 16777216 + f[p + 2] * 65536 + f[p + 3] * 256 + f[p + 4]

\* VLQ decode (design document 4.1): seven bits a byte, most significant first,
\* until a byte with the continuation bit clear; fails when the bytes run out
RECURSIVE VLQ_decode_from(_, _, _)
VLQ_decode_from(f, p, acc) ==
    IF p >= Len(f) THEN Fail
    ELSE IF f[p + 1] >= 128
         THEN VLQ_decode_from(f, p + 1, acc * 128 + (f[p + 1] - 128))
         ELSE [ok |-> TRUE, val |-> acc * 128 + f[p + 1], next |-> p + 1]

VLQ_decode(f, p) == VLQ_decode_from(f, p, 0)

\* feed the bytes that follow into the builder until shortage() is 0
RECURSIVE Reader_feed(_, _, _)
Reader_feed(f, p, b) ==
    IF MidiEventBuilder_shortage(b) = 0 THEN [ok |-> TRUE, next |-> p, builder |-> b]
    ELSE IF p >= Len(f) THEN Fail
    ELSE Reader_feed(f, p + 1, MidiEventBuilder_push(b, f[p + 1]))

\* a length-prefixed payload at p
Reader_payload(f, p) ==
    LET n == VLQ_decode(f, p)
    IN  IF ~n.ok THEN Fail
        ELSE IF n.next + n.val > Len(f) THEN Fail
        ELSE [ok |-> TRUE, data |-> Reader_take(f, n.next, n.val),
              next |-> n.next + n.val]

\* one event at p, under the running status `status`: the message to dispatch,
\* the offset after it and the running status after it
Reader_event(f, p, status) ==
    LET dt == VLQ_decode(f, p)
    IN  IF ~dt.ok THEN Fail
        ELSE IF dt.next >= Len(f) THEN Fail
        ELSE
          LET b == f[dt.next + 1]
              q == dt.next + 1
          IN  CASE b = 255 ->
                    IF q >= Len(f) THEN Fail
                    ELSE LET pl == Reader_payload(f, q + 1)
                         IN  IF ~pl.ok THEN Fail
                             ELSE [ok |-> TRUE, next |-> pl.next, status |-> status,
                                   msg |-> MetaMessage(dt.val, MetaEvent_new(f[q + 1]),
                                                       pl.data)]
                [] b = 240 \/ b = 247 ->
                    LET pl == Reader_payload(f, q)
                    IN  IF ~pl.ok THEN Fail
                        ELSE [ok |-> TRUE, next |-> pl.next, status |-> status,
                              msg |-> SysExMessage(dt.val, SysExEvent_new(b), pl.data)]
                [] OTHER ->
                    LET start == IF b < 128
                                 THEN MidiEventBuilder_push(
                                        MidiEventBuilder_new(status), b)
                                 ELSE MidiEventBuilder_new(b)
                        fed == Reader_feed(f, q, start)
                    IN  IF ~fed.ok THEN Fail
                        ELSE LET ev == MidiEventBuilder_build(fed.builder)
                             IN  IF ev.tag # "Ok" THEN Fail
                                 ELSE [ok |-> TRUE, next |-> fed.next,
                                       status |-> IF b < 128 THEN status ELSE b,
                                       msg |-> MidiMessage(dt.val, ev.val)]

\* the handler callback that an event is dispatched to
Reader_dispatch(ms, m) ==
    CASE m.type = "MetaEvent" -> HogeHandler_meta_event(ms, m.delta_time, m.event, m.data)
      [] m.type = "MidiEvent" -> HogeHandler_midi_event(ms, m.delta_time, m.event)
      [] m.type = "SysExEvent" ->
            HogeHandler_sys_ex_event(ms, m.delta_time, m.event, m.data)

\* Reader_fires_track_change that also fires on entering the first track chunk
Reader_fires_track_change_always(entered) == entered >= 0

\* TRUE iff track_change is called on entering a track chunk, `entered` track
\* chunks having been entered before it
Reader_fires_track_change(entered) == entered >= 1

(***************************************************************************)
(* SpecFile: messages are pushed to a Writer, the file is written, and a   *)
(* Reader with a HogeHandler reads it back.                                *)
(***************************************************************************)
FileMessages ==
    { Example_messages[1],
      MetaMessage(0, Meta("EndOfTrack"), <<>>),
      TrackChange,
      MidiMessage(0, NoteOn(0, 60, 127)),
      MidiMessage(192, NoteOn(0, 64, 0)),
      MidiMessage(0, NoteOn(1, 60, 127)),
      SysExMessage(0, SysExEvent_new(247), <<1>>) }

RunningStatus(flag) ==
    /\ r_state = "NotStarted"
    /\ w_messages = <<>>
    /\ w_running' = flag
    /\ UNCHANGED <<w_messages, file, r_state, r_pos, r_end, r_status, r_tracks,
                   h_header, h_changes, messages, codecVars, messageVars>>

PushMessage(m) ==
    /\ r_state = "NotStarted"
    /\ Len(w_messages) < MaxMsgs
    /\ w_messages' = Append(w_messages, m)
    /\ UNCHANGED <<w_running, file, r_state, r_pos, r_end, r_status, r_tracks,
                   h_header, h_changes, messages, codecVars, messageVars>>

\* the build half of the example's main
ExampleMain ==
    /\ r_state = "NotStarted"
    /\ w_messages = <<>>
    /\ ~w_running
    /\ w_running' = TRUE
    /\ w_messages' = Example_messages
    /\ UNCHANGED <<file, r_state, r_pos, r_end, r_status, r_tracks,
                   h_header, h_changes, messages, codecVars, messageVars>>

Write ==
    /\ r_state = "NotStarted"
    /\ file' = Writer_write(w_messages, w_running)
    /\ r_state' = "ExpectHeaderChunk"
    /\ UNCHANGED <<w_messages, w_running, r_pos, r_end, r_status, r_tracks,
                   h_header, h_changes, messages, codecVars, messageVars>>

ReadHeader ==
    /\ r_state = "ExpectHeaderChunk"
    /\ IF /\ Len(file) >= 14
          /\ Reader_take(file, 0, 4) = Tag_Header_binary
          /\ Reader_u32(file, 4) = 6
       THEN /\ h_header' = Ok(<<Reader_u16(file, 8), Reader_u16(file, 10),
                                Reader_u16(file, 12)>>)
            /\ r_pos' = 14
            /\ r_state' = "ExpectTrackChunk"
       ELSE /\ r_state' = "Error"
            /\ UNCHANGED <<h_header, r_pos>>
    /\ UNCHANGED <<w_messages, w_running, file, r_end, r_status, r_tracks,
                   h_changes, messages, codecVars, messageVars>>

ReadTrack ==
    /\ r_state \in {"ExpectTrackChunk", "TrackComplete"}
    /\ IF r_pos = Len(file)
       THEN /\ r_state' = "Done"
            /\ UNCHANGED <<r_pos, r_end, r_status, r_tracks, h_changes, messages>>
       ELSE IF /\ Len(file) >= r_pos + 8
               /\ Reader_take(file, r_pos, 4) = Tag_Track_binary
               /\ r_pos + 8 + Reader_u32(file, r_pos + 4) <= Len(file)
       THEN /\ r_tracks' = r_tracks + 1
            /\ r_pos' = r_pos + 8
            /\ r_end' = r_pos + 8 + Reader_u32(file, r_pos + 4)
            /\ r_status' = 0
            /\ r_state' = "ExpectEvent"
            /\ IF Reader_fires_track_change(r_tracks)
               THEN /\ messages' = HogeHandler_track_change(messages)
                    /\ h_changes' = h_changes + 1
               ELSE UNCHANGED <<messages, h_changes>>
       ELSE /\ r_state' = "Error"
            /\ UNCHANGED <<r_pos, r_end, r_status, r_tracks, h_changes, messages>>
    /\ UNCHANGED <<w_messages, w_running, file, h_header, codecVars, messageVars>>

ReadEvent ==
    /\ r_state = "ExpectEvent"
    /\ r_pos < r_end
    /\ LET ev == Reader_event(file, r_pos, r_status)
       IN  IF ev.ok
           THEN IF ev.next <= r_end
                THEN /\ messages' = Reader_dispatch(messages, ev.msg)
                     /\ r_pos' = ev.next
                     /\ r_status' = ev.status
                     /\ UNCHANGED r_state
                ELSE /\ r_state' = "Error"
                     /\ UNCHANGED <<messages, r_pos, r_status>>
           ELSE /\ r_state' = "Error"
                /\ UNCHANGED <<messages, r_pos, r_status>>
    /\ UNCHANGED <<w_messages, w_running, file, r_end, r_tracks, h_header,
                   h_changes, codecVars, messageVars>>

CompleteTrack ==
    /\ r_state = "ExpectEvent"
    /\ r_pos = r_end
    /\ r_state' = "TrackComplete"
    /\ UNCHANGED <<w_messages, w_running, file, r_pos, r_end, r_status, r_tracks,
                   h_header, h_changes, messages, codecVars, messageVars>>

NextFile ==
    \/ \E flag \in BOOLEAN : RunningStatus(flag)
    \/ \E m \in FileMessages : PushMessage(m)
    \/ ExampleMain
    \/ Write
    \/ ReadHeader
    \/ ReadTrack
    \/ ReadEvent
    \/ CompleteTrack

SpecFile == Init /\ [][NextFile]_vars

(***************************************************************************)
(* Properties of the Writer and the Reader (SpecFile).                     *)
(***************************************************************************)
IsMidi(m) == m.type = "MidiEvent"

\* the channel-voice messages that directly follow one of the same kind and channel
SameStatusFollowers(ms) ==
    {i \in 2..Len(ms) :
        /\ ms[i].type = "MidiEvent" /\ ms[i - 1].type = "MidiEvent"
        /\ ms[i].event.kind = ms[i - 1].event.kind
        /\ ms[i].event.ch = ms[i - 1].event.ch}

NoSysEx(ms) == \A i \in 1..Len(ms) : ms[i].type # "SysExEvent"

TwoNoteOns == <<MidiMessage(0, NoteOn(0, 60, 127)), MidiMessage(192, NoteOn(0, 64, 0))>>

====
